---- MODULE Spec2Model ----
(***************************************************************************)
(* Model of the image upload service of src/app.py: HTTP upload handlers   *)
(* stage validated images under /tmp/images, and push_images_to_gitlab     *)
(* reconciles that staging directory with the images/ folder of a GitLab   *)
(* repository.  The engine is run by the background thread                 *)
(* gitlab_push_worker and, on demand, by the trigger_push endpoint.        *)
(***************************************************************************)
EXTENDS Integers, FiniteSets, Sequences, TLC

\* ------------------------------------------------------------------ bounds
\* Local names handed out in the window modelled.  A name is a timestamp to
\* the second plus a 4-digit code; the uploads modelled get names that
\* differ, so MaxNames is also the number of files ever written.
MaxNames == 2
\* How many requests the remote may answer badly (500, transport error or no
\* answer at all) before it answers every request properly.
MaxFaults == 3

\* The longest file.filename of an upload request, in pieces of text.
MaxLen == 3
\* How many upload requests the model of the upload path answers.
MaxUploads == 2

Names == 1 .. MaxNames

\* The two threads that run push_images_to_gitlab: the daemon thread started
\* at import time and the Flask handler of POST /api/trigger-push.
Procs == {"worker", "trigger"}

VARIABLES
    staged,         \* /tmp/images/<n>: "absent", "valid" or "corrupt" bytes
    dirExists,      \* os.path.exists(UPLOAD_FOLDER)
    used,           \* names under which a file has been written so far
    remote,         \* names n with images/<n> present on the branch
    keep,           \* images/.gitkeep present on the branch
    faults,         \* bad answers the remote has given so far
    pc,             \* position of each thread inside push_images_to_gitlab
    image_files,    \* the listing taken at line 142
    i,              \* index of the current image_file in the listing
    response,       \* status code of the existence probe (line 182)
    attempt,        \* loop variable of the retry loop (line 196)
    success_count,  \* line 161 / 232
    failed_files,   \* line 162 / 174 / 235 / 237
    rejected,       \* history: failed assets whose every write got a 500
    mismatch,       \* history: failed assets written but not found by the verify
    branch,         \* what get_default_branch returned to this cycle, "": not yet
    log,            \* history: status codes of the writes of the current asset
    result,         \* what the cycle returned (success flag and message kind)
    reply,          \* HTTP status of the last trigger_push response, 0: none
    filename,       \* file.filename of the upload request being handled
    handled,        \* whether that request has been answered
    now,            \* datetime.datetime.now(): the second the clock is in
    new_filename,   \* what resize_and_save_image returned, << >>: None
    store,          \* the names of the files written to UPLOAD_FOLDER
    nup,            \* upload requests answered so far
    uploads,        \* src/app/index.py: the files in UPLOAD_FOLDER
    uploads_dir,    \* src/app/index.py: os.path.exists(UPLOAD_FOLDER)
    given,          \* src/app/index.py: names handed out so far
    repo_dir,       \* os.path.exists(REPO_DIR): the clone is there
    worktree,       \* the files in REPO_DIR/images
    head,           \* the files of the clone's last commit
    origin,         \* the files of the branch on GitHub
    gpc,            \* where the call of push_images_to_github stands
    listed,         \* its image_files
    gresult,        \* what it returned last
    gfaults         \* git operations that failed so far

\* The upload path seen at the level of the names it allocates.
nameVars == << filename, handled, now, new_filename, store, nup >>

\* The state of src/app/index.py, the variant that pushes through a clone.
gitVars == << uploads, uploads_dir, given, repo_dir, worktree, head, origin,
              gpc, listed, gresult, gfaults >>

vars == << staged, dirExists, used, remote, keep, faults, pc, image_files,
           i, response, attempt, success_count, failed_files, rejected, mismatch,
           branch,
           log, result, reply, nameVars, gitVars >>

cycleVars == << image_files, i, response, attempt, success_count,
                failed_files, rejected, mismatch, branch, log >>

\* The state of src/app.py.
appVars == << staged, dirExists, used, remote, keep, faults, pc, cycleVars,
              result, reply, nameVars >>

\* ----------------------------------------------------------------- helpers
\* The k-th name of a listing, in ascending order (os.listdir's order is the
\* file system's; ascending is the order modelled).
Nth(S, k) == CHOOSE n \in S : Cardinality({m \in S : m < n}) = k - 1

\* [f for f in os.listdir(UPLOAD_FOLDER) if os.path.isfile(...)]
Listing == {n \in Names : staged[n] # "absent"}

\* What a request to the remote can meet: a proper answer ("ok"), a
\* non-success status ("fail"), a raised transport exception ("exc"), or no
\* answer at all ("hang": requests.get/post/put are called without timeout=).
Answers == IF faults < MaxFaults THEN {"ok", "fail", "exc", "hang"} ELSE {"ok"}

Spend(a) == faults' = (IF a = "ok" THEN faults ELSE faults + 1)

\* for attempt in range(3)
MaxAttempts == 3

\* A loop that gives up after the first attempt.
RetryOnce(a) == a < 1

\* A loop that tries once more than the budget allows.
RetryOffByOne(a) == a <= MaxAttempts

\* Whether the retry loop runs again after `a` attempts were made.
RetryAgain(a) == a < MaxAttempts

\* A purge as soon as one image went through.
PurgeGuardAny(c) == success_count[c] > 0

\* if success_count == len(image_files)
PurgeGuard(c) == success_count[c] = Cardinality(image_files[c])

\* shutil.rmtree(UPLOAD_FOLDER): the directory goes with everything in it.
AfterRmtree == [n \in Names |-> "absent"]

\* No handler: the exception leaves push_images_to_gitlab and ends the
\* thread that called it.
ExceptPcCrash == "crashed"

\* except Exception as e: ... return False, f"Error pushing to GitLab: ..."
\* The caller gets a result back and goes on.
ExceptPc == "done"

\* A partial purge: the confirmed files of the batch are deleted one by one.
AfterPartialPurged(c) ==
    [n \in Names |-> IF n \in image_files[c] \ failed_files[c] THEN "absent" ELSE staged[n]]

\* Lines 243-246: the else branch of the purge decision touches no file.
AfterPartial(c) == staged

\* trigger_push: 200 when the tuple's first component is True, 400 otherwise.
TriggerStatus(r) == IF r = "pushed" THEN 200 ELSE 400

\* A probe that reports every object as missing.
ProbeStatusBlind(f, a) == IF a = "fail" THEN 500 ELSE 404

\* GET /files/<path>?ref=<branch>: 200 when the object is there.
ProbeStatus(f, a) == IF a = "fail" THEN 500 ELSE IF f \in remote THEN 200 ELSE 404

\* The write of the retry loop: PUT when the probe answered 200, POST
\* otherwise.  PUT updates an existing object and POST creates a missing one;
\* the other way round the API answers 400.
WriteStatus(c, f, a) ==
    IF a = "fail" THEN 500
    ELSE IF response[c] = 200
         THEN (IF f \in remote THEN 200 ELSE 400)
         ELSE (IF f \in remote THEN 400 ELSE 201)

\* A verify that takes the write's word for it.
VerifiedUnchecked(st) == TRUE

\* if verify_response.status_code == 200 (line 228): the object is counted
\* only when the probe re-issued after the write finds it.
Verified(st) == st = 200

\* A listing that is never taken for an answer: the placeholder is always posted.
TreeListedNever(a) == FALSE

\* if response.status_code == 200: return True (lines 108-109).  The tree
\* of images/ lists something once the placeholder or an image is there.
TreeListed(a) == a = "ok" /\ (keep \/ remote # {})

\* ------------------------------------------------------------------- state
\* src/app/index.py as it starts: nothing uploaded, no clone, an empty branch.
GitIdle ==
    /\ uploads = {}
    /\ uploads_dir = FALSE
    /\ given = {}
    /\ repo_dir = FALSE
    /\ worktree = {}
    /\ head = {}
    /\ origin = {}
    /\ gpc = "idle"
    /\ listed = {}
    /\ gresult = "none"
    /\ gfaults = 0

Init ==
    /\ staged = [n \in Names |-> "absent"]
    /\ dirExists = FALSE
    /\ used = {}
    /\ remote = {}
    /\ keep = FALSE
    /\ faults = 0
    /\ pc = [c \in Procs |-> IF c = "worker" THEN "list" ELSE "idle"]
    /\ image_files = [c \in Procs |-> {}]
    /\ i = [c \in Procs |-> 0]
    /\ response = [c \in Procs |-> 0]
    /\ attempt = [c \in Procs |-> 0]
    /\ success_count = [c \in Procs |-> 0]
    /\ failed_files = [c \in Procs |-> {}]
    /\ rejected = [c \in Procs |-> {}]
    /\ mismatch = [c \in Procs |-> {}]
    /\ branch = [c \in Procs |-> ""]
    /\ log = [c \in Procs |-> << >>]
    /\ result = [c \in Procs |-> "none"]
    /\ reply = 0
    /\ GitIdle
    /\ filename = << >>
    /\ handled = TRUE
    /\ now = 1
    /\ new_filename = << >>
    /\ store = {}
    /\ nup = 0

\* ------------------------------------------------- leaving the engine
\* The locals of a call go once nothing reads them any more.
DropLocals(c) ==
    /\ image_files' = [image_files EXCEPT ![c] = {}]
    /\ i' = [i EXCEPT ![c] = 0]
    /\ response' = [response EXCEPT ![c] = 0]
    /\ attempt' = [attempt EXCEPT ![c] = 0]
    /\ success_count' = [success_count EXCEPT ![c] = 0]
    /\ failed_files' = [failed_files EXCEPT ![c] = {}]
    /\ rejected' = [rejected EXCEPT ![c] = {}]
    /\ mismatch' = [mismatch EXCEPT ![c] = {}]
    /\ branch' = [branch EXCEPT ![c] = ""]
    /\ log' = [log EXCEPT ![c] = << >>]

\* return <flag>, <message>: the message of lines 242 and 244 carries
\* success_count and failed_files to the caller, so they are kept until the
\* caller has used the result.
Return(c, r) ==
    /\ pc' = [pc EXCEPT ![c] = "done"]
    /\ result' = [result EXCEPT ![c] = r]
    /\ UNCHANGED cycleVars

\* An exception raised anywhere inside the try block of lines 137-246.
Raise(c) ==
    /\ pc' = [pc EXCEPT ![c] = ExceptPc]
    /\ result' = [result EXCEPT ![c] = "error"]
    /\ DropLocals(c)

\* A request that is never answered: the thread stays inside requests, and
\* nothing reads its locals again.
Stall(c) ==
    /\ pc' = [pc EXCEPT ![c] = "stalled"]
    /\ DropLocals(c)
    /\ UNCHANGED result

\* The return value of ensure_images_directory is not looked at: the loop
\* over image_files starts all the same.
OnEnsureIgnored(c) ==
    /\ pc' = [pc EXCEPT ![c] = "verify"]
    /\ i' = [i EXCEPT ![c] = 1]
    /\ UNCHANGED << image_files, response, attempt, success_count,
                    failed_files, rejected, mismatch, branch, log, result >>

\* if not ensure_images_directory(branch): return False, "Failed to ensure
\* images/ directory exists." (lines 158-159)
OnEnsureFailed(c) == Return(c, "ensure_failed")

\* continue / end of the for body: on to the next image_file, or out of the loop.
NextAsset(c, sc, ff, rj, mm) ==
    /\ success_count' = [success_count EXCEPT ![c] = sc]
    /\ failed_files' = [failed_files EXCEPT ![c] = ff]
    /\ rejected' = [rejected EXCEPT ![c] = rj]
    /\ mismatch' = [mismatch EXCEPT ![c] = mm]
    /\ i' = [i EXCEPT ![c] = i[c] + 1]
    /\ response' = [response EXCEPT ![c] = 0]
    /\ attempt' = [attempt EXCEPT ![c] = 0]
    /\ log' = [log EXCEPT ![c] = << >>]
    /\ pc' = [pc EXCEPT ![c] =
                IF i[c] + 1 > Cardinality(image_files[c]) THEN "decide" ELSE "verify"]
    /\ UNCHANGED << image_files, branch, result >>

\* ------------------------------------------------------ upload handlers
\* upload_image / batch_upload_images / upload_page for one file, with the
\* name n that resize_and_save_image allocates.  kind is what the file is:
\*   "bad_ext"    allowed_file is false: 400, nothing touched
\*   "bad_image"  Image.open/verify raises before the save: None
\*   "bad_saved"  img.save wrote destination_path, the verify of the saved
\*                file raises: None, the file stays where it was written
\*   "image"      saved and verified: the name is returned with 'success'
Upload(n, kind) ==
    /\ n \notin used
    /\ used' = (IF kind \in {"image", "bad_saved"} THEN used \cup {n} ELSE used)
    /\ dirExists' = (IF kind = "bad_ext" THEN dirExists ELSE TRUE)
    /\ staged' = CASE kind = "image" -> [staged EXCEPT ![n] = "valid"]
                   [] kind = "bad_saved" -> [staged EXCEPT ![n] = "corrupt"]
                   [] OTHER -> staged
    /\ UNCHANGED << remote, keep, faults, pc, cycleVars, result, reply, nameVars, gitVars >>

\* ------------------------------------------------ push_images_to_gitlab
\* Lines 138-147.
List(c) ==
    /\ pc[c] = "list"
    /\ UNCHANGED << staged, dirExists, used, remote, keep, faults, reply, nameVars, gitVars >>
    /\ IF ~dirExists THEN Return(c, "no_dir")
       ELSE IF Listing = {} THEN Return(c, "no_images")
       ELSE /\ image_files' = [image_files EXCEPT ![c] = Listing]
            /\ pc' = [pc EXCEPT ![c] = "branch"]
            /\ result' = [result EXCEPT ![c] = "none"]
            /\ UNCHANGED << i, response, attempt, success_count, failed_files,
                            rejected, mismatch, branch, log >>

\* The default branch of the GitLab project, as the project API reports it.
default_branch == "master"

\* get_default_branch without its handlers: the failed request is an
\* exception in push_images_to_gitlab.
BranchFallbackRaises(c) == Raise(c)

\* return 'main' (lines 93 and 96): what get_default_branch hands back on a
\* non-200 answer and on an exception.
BranchFallback(c) ==
    /\ branch' = [branch EXCEPT ![c] = "main"]
    /\ pc' = [pc EXCEPT ![c] = "tree"]
    /\ UNCHANGED << image_files, i, response, attempt, success_count,
                    failed_files, rejected, mismatch, log, result >>

\* Line 155, get_default_branch (lines 81-96): a non-200 answer and an
\* exception both fall back to 'main'; the cycle goes on either way.
GetDefaultBranch(c) ==
    /\ pc[c] = "branch"
    /\ \E a \in Answers :
        /\ Spend(a)
        /\ CASE a = "hang" -> Stall(c)
             [] a = "ok" ->
                    /\ branch' = [branch EXCEPT ![c] = default_branch]
                    /\ pc' = [pc EXCEPT ![c] = "tree"]
                    /\ UNCHANGED << image_files, i, response, attempt, success_count,
                                    failed_files, rejected, mismatch, log, result >>
             [] OTHER -> BranchFallback(c)
    /\ UNCHANGED << staged, dirExists, used, remote, keep, reply, nameVars, gitVars >>

\* ensure_images_directory, lines 103-109: GET .../tree?path=images.
\* Its own try/except turns an exception into False.
EnsureTree(c) ==
    /\ pc[c] = "tree"
    /\ \E a \in Answers :
        /\ Spend(a)
        /\ CASE a = "hang" -> Stall(c)
             [] a = "exc" -> OnEnsureFailed(c)
             [] TreeListed(a) ->
                    /\ pc' = [pc EXCEPT ![c] = "verify"]
                    /\ i' = [i EXCEPT ![c] = 1]
                    /\ UNCHANGED << image_files, response, attempt, success_count,
                                    failed_files, rejected, mismatch, branch, log, result >>
             [] OTHER ->
                    /\ pc' = [pc EXCEPT ![c] = "keep"]
                    /\ UNCHANGED << cycleVars, result >>
    /\ UNCHANGED << staged, dirExists, used, remote, keep, reply, nameVars, gitVars >>

\* ensure_images_directory, lines 111-133: POST images/.gitkeep.
EnsureKeep(c) ==
    /\ pc[c] = "keep"
    /\ \E a \in Answers :
        /\ Spend(a)
        /\ CASE a = "hang" -> Stall(c) /\ UNCHANGED keep
             [] a = "ok" /\ ~keep ->
                    /\ keep' = TRUE
                    /\ pc' = [pc EXCEPT ![c] = "verify"]
                    /\ i' = [i EXCEPT ![c] = 1]
                    /\ UNCHANGED << image_files, response, attempt, success_count,
                                    failed_files, rejected, mismatch, branch, log, result >>
             [] OTHER -> OnEnsureFailed(c) /\ UNCHANGED keep
    /\ UNCHANGED << staged, dirExists, used, remote, reply, nameVars, gitVars >>

\* A loop that does not look at the file before it sends it.
LocallyValidUnchecked(f) == TRUE

\* Lines 169-171: Image.open(image_path) and verify() go through.
LocallyValid(f) == staged[f] = "valid"

\* Lines 163-175: Image.open(image_path) / verify() inside its own try; a
\* missing or corrupt file is appended to failed_files and the loop continues.
VerifyLocal(c) ==
    /\ pc[c] = "verify"
    /\ LET f == Nth(image_files[c], i[c]) IN
         IF LocallyValid(f)
         THEN /\ pc' = [pc EXCEPT ![c] = "probe"]
              /\ UNCHANGED << cycleVars, result >>
         ELSE NextAsset(c, success_count[c], failed_files[c] \cup {f}, rejected[c],
                        mismatch[c])
    /\ UNCHANGED << staged, dirExists, used, remote, keep, faults, reply, nameVars, gitVars >>

\* Lines 178-186: open(image_path, 'rb') (raises when the file is gone), then
\* the existence probe.
Probe(c) ==
    /\ pc[c] = "probe"
    /\ LET f == Nth(image_files[c], i[c]) IN
         IF staged[f] = "absent"
         THEN Raise(c) /\ UNCHANGED faults
         ELSE \E a \in Answers :
                /\ Spend(a)
                /\ CASE a = "hang" -> Stall(c)
                     [] a = "exc" -> Raise(c)
                     [] OTHER ->
                          /\ response' = [response EXCEPT ![c] = ProbeStatus(f, a)]
                          /\ pc' = [pc EXCEPT ![c] = "write"]
                          /\ UNCHANGED << image_files, i, attempt, success_count,
                                          failed_files, rejected, mismatch, branch, log, result >>
    /\ UNCHANGED << staged, dirExists, used, remote, keep, reply, nameVars, gitVars >>

\* Lines 196-221 and 236-237: one pass of the retry loop.
Write(c) ==
    /\ pc[c] = "write"
    /\ LET f == Nth(image_files[c], i[c]) IN
       \E a \in Answers :
         /\ Spend(a)
         /\ CASE a = "hang" -> Stall(c) /\ UNCHANGED remote
              [] a = "exc" -> Raise(c) /\ UNCHANGED remote
              [] OTHER ->
                 LET st == WriteStatus(c, f, a)
                     lg == Append(log[c], st)
                 IN /\ remote' = (IF st = 201 THEN remote \cup {f} ELSE remote)
                    /\ IF st \in {200, 201}
                       THEN /\ pc' = [pc EXCEPT ![c] = "confirm"]
                            /\ log' = [log EXCEPT ![c] = lg]
                            /\ UNCHANGED << image_files, i, response, attempt,
                                            success_count, failed_files, rejected,
                                            mismatch, branch, result >>
                       ELSE IF RetryAgain(attempt[c] + 1)
                       THEN /\ attempt' = [attempt EXCEPT ![c] = attempt[c] + 1]
                            /\ log' = [log EXCEPT ![c] = lg]
                            /\ UNCHANGED << pc, image_files, i, response,
                                            success_count, failed_files, rejected,
                                            mismatch, branch, result >>
                       ELSE NextAsset(c, success_count[c], failed_files[c] \cup {f},
                                      IF \A k \in 1 .. Len(lg) : lg[k] = 500
                                      THEN rejected[c] \cup {f} ELSE rejected[c],
                                      mismatch[c])
    /\ UNCHANGED << staged, dirExists, used, keep, reply, nameVars, gitVars >>

\* Lines 223-235: the probe re-issued after a write that reported success.
Confirm(c) ==
    /\ pc[c] = "confirm"
    /\ LET f == Nth(image_files[c], i[c]) IN
       \E a \in Answers :
         /\ Spend(a)
         /\ CASE a = "hang" -> Stall(c)
              [] a = "exc" -> Raise(c)
              [] OTHER ->
                   IF Verified(ProbeStatus(f, a))
                   THEN NextAsset(c, success_count[c] + 1, failed_files[c], rejected[c],
                                  mismatch[c])
                   ELSE NextAsset(c, success_count[c], failed_files[c] \cup {f}, rejected[c],
                                  mismatch[c] \cup {f})
    /\ UNCHANGED << staged, dirExists, used, remote, keep, reply, nameVars, gitVars >>

\* Lines 239-246: the purge decision.  rmtree raises when the directory is
\* no longer there.
Decide(c) ==
    /\ pc[c] = "decide"
    /\ IF PurgeGuard(c)
       THEN IF dirExists
            THEN /\ staged' = AfterRmtree
                 /\ dirExists' = FALSE
                 /\ Return(c, "pushed")
            ELSE /\ Raise(c)
                 /\ UNCHANGED << staged, dirExists >>
       ELSE /\ Return(c, "partial")
            /\ staged' = AfterPartial(c)
            /\ UNCHANGED dirExists
    /\ UNCHANGED << used, remote, keep, faults, reply, nameVars, gitVars >>

\* ----------------------------------------------------------- schedulers
\* gitlab_push_worker, lines 254-258: log the message, sleep, call again.
Sleep ==
    /\ pc["worker"] = "done"
    /\ pc' = [pc EXCEPT !["worker"] = "list"]
    /\ result' = [result EXCEPT !["worker"] = "none"]
    /\ DropLocals("worker")
    /\ UNCHANGED << staged, dirExists, used, remote, keep, faults, reply, nameVars, gitVars >>

\* POST /api/trigger-push arrives.
Trigger ==
    /\ pc["trigger"] = "idle"
    /\ pc' = [pc EXCEPT !["trigger"] = "list"]
    /\ reply' = 0
    /\ UNCHANGED << staged, dirExists, used, remote, keep, faults, cycleVars,
                    result, nameVars, gitVars >>

\* trigger_push, lines 365-374.
Respond ==
    /\ pc["trigger"] = "done"
    /\ pc' = [pc EXCEPT !["trigger"] = "idle"]
    /\ reply' = TriggerStatus(result["trigger"])
    /\ result' = [result EXCEPT !["trigger"] = "none"]
    /\ DropLocals("trigger")
    /\ UNCHANGED << staged, dirExists, used, remote, keep, faults, nameVars, gitVars >>

Kinds == {"bad_ext", "bad_image", "bad_saved", "image"}

Next ==
    \/ \E n \in Names, kind \in Kinds : Upload(n, kind)
    \/ \E c \in Procs : List(c)
    \/ \E c \in Procs : GetDefaultBranch(c)
    \/ \E c \in Procs : EnsureTree(c)
    \/ \E c \in Procs : EnsureKeep(c)
    \/ \E c \in Procs : VerifyLocal(c)
    \/ \E c \in Procs : Probe(c)
    \/ \E c \in Procs : Write(c)
    \/ \E c \in Procs : Confirm(c)
    \/ \E c \in Procs : Decide(c)
    \/ Sleep
    \/ Trigger
    \/ Respond

Spec == Init /\ [][Next]_vars

\* One step of thread c inside push_images_to_gitlab.
Step(c) ==
    \/ List(c) \/ GetDefaultBranch(c) \/ EnsureTree(c) \/ EnsureKeep(c)
    \/ VerifyLocal(c) \/ Probe(c) \/ Write(c) \/ Confirm(c) \/ Decide(c)

\* A started thread keeps being scheduled: the worker's while True loop and
\* the handler of a request that has arrived run on.  Nothing forces a
\* request or an upload to arrive.
Fairness ==
    /\ WF_vars(Step("worker") \/ Sleep)
    /\ WF_vars(Step("trigger") \/ Respond)

FairSpec == Init /\ [][Next]_vars /\ Fairness

\* The same program against a remote that answers every request properly
\* from the start.
InitHealthy ==
    /\ staged = [n \in Names |-> "absent"]
    /\ dirExists = FALSE
    /\ used = {}
    /\ remote = {}
    /\ keep = FALSE
    /\ faults = MaxFaults
    /\ pc = [c \in Procs |-> IF c = "worker" THEN "list" ELSE "idle"]
    /\ image_files = [c \in Procs |-> {}]
    /\ i = [c \in Procs |-> 0]
    /\ response = [c \in Procs |-> 0]
    /\ attempt = [c \in Procs |-> 0]
    /\ success_count = [c \in Procs |-> 0]
    /\ failed_files = [c \in Procs |-> {}]
    /\ rejected = [c \in Procs |-> {}]
    /\ mismatch = [c \in Procs |-> {}]
    /\ branch = [c \in Procs |-> ""]
    /\ log = [c \in Procs |-> << >>]
    /\ result = [c \in Procs |-> "none"]
    /\ reply = 0
    /\ GitIdle
    /\ filename = << >>
    /\ handled = TRUE
    /\ now = 1
    /\ new_filename = << >>
    /\ store = {}
    /\ nup = 0

LiveSpec == InitHealthy /\ [][Next]_vars /\ Fairness

\* ------------------------------------------------- the names of uploads
\* The upload path of lines 33-79 and 260-295 with the text of the names it
\* works on.  A text is a sequence of pieces; a piece is a separator or a run
\* of letters that is not split any further.
Alphabet == {"a", ".", "/", "PNG", "gif"}

Filenames == UNION {[1 .. k -> Alphabet] : k \in 0 .. MaxLen}

\* app.config['ALLOWED_EXTENSIONS']
ALLOWED_EXTENSIONS == {"png", "jpg", "jpeg", "gif"}

\* random.choices(string.digits, k=4): any 4 digits, every time.
Codes == {"0413", "7760"}

\* now.strftime("%d_%m_%y_%H_%M_%S") for the seconds the clock goes through.
Stamps == << "03_11_26_10_15_00", "03_11_26_10_15_01" >>

strftime(t) == Stamps[t]

\* str.lower()
lower(piece) == IF piece = "PNG" THEN "png" ELSE piece

Lower(s) == [k \in 1 .. Len(s) |-> lower(s[k])]

\* str.rfind, counted from 1: 0 when ch is not in s.
rfind(s, ch) ==
    IF \E k \in 1 .. Len(s) : s[k] = ch
    THEN CHOOSE k \in 1 .. Len(s) : s[k] = ch /\ \A m \in (k + 1) .. Len(s) : s[m] # ch
    ELSE 0

\* filename.rsplit('.', 1)[1], for a filename with a '.' in it
AfterLastDot(s) == SubSeq(s, rfind(s, ".") + 1, Len(s))

\* Line 34.
allowed_file(fn) ==
    /\ rfind(fn, ".") # 0
    /\ Lower(AfterLastDot(fn)) \in {<< e >> : e \in ALLOWED_EXTENSIONS}

\* os.path.splitext(p)[1]: from the last dot of the last path component,
\* unless that component has nothing but dots before it.
splitext(p) ==
    LET sepIndex == rfind(p, "/")
        dotIndex == rfind(p, ".")
    IN IF /\ dotIndex > sepIndex
          /\ \E k \in (sepIndex + 1) .. (dotIndex - 1) : p[k] # "."
       THEN SubSeq(p, dotIndex, Len(p))
       ELSE << >>

\* The extension taken as the client spelled it.
file_extension_raw(fn) == splitext(fn)

\* Line 47: os.path.splitext(file.filename)[1].lower()
file_extension(fn) == Lower(splitext(fn))

\* Line 48: f"{timestamp}_{random_code}{file_extension}"
NewFilename(t, code, fn) == << strftime(t), "_", code >> \o file_extension(fn)

\* Lines 62-65: 'JPEG' is passed for .jpg/.jpeg; otherwise Pillow takes the
\* format from the lower-cased extension of destination_path and raises
\* when it knows none for it.
CanSave(ext) ==
    \/ ext \in {<< ".", "jpg" >>, << ".", "jpeg" >>}
    \/ Lower(ext) \in {<< ".", e >> : e \in {"png", "gif", "jpg", "jpeg"}}

\* upload_image for the request at hand, lines 261-295: random_code is the
\* code drawn, content what the uploaded bytes are ("image", "bad_image":
\* the decode of lines 52-56 raises, "bad_saved": the check of lines 73-74
\* raises).  A file saved under a name that is there already replaces it.
UploadImage(random_code, content) ==
    /\ ~handled
    /\ handled' = TRUE
    /\ nup' = nup + 1
    /\ LET nm == NewFilename(now, random_code, filename) IN
         IF filename = << >> \/ ~allowed_file(filename)
         THEN new_filename' = << >> /\ store' = store
         ELSE IF content = "bad_image" \/ ~CanSave(SubSeq(nm, 4, Len(nm)))
         THEN new_filename' = << >> /\ store' = store
         ELSE /\ store' = store \cup {nm}
              /\ new_filename' = (IF content = "image" THEN nm ELSE << >>)
    /\ UNCHANGED << filename, now >>
    /\ UNCHANGED << staged, dirExists, used, remote, keep, faults, pc, cycleVars,
                    result, reply, gitVars >>

\* The next upload request arrives with its file.filename.
NextRequest(fn) ==
    /\ handled
    /\ nup < MaxUploads
    /\ handled' = FALSE
    /\ filename' = fn
    /\ new_filename' = << >>
    /\ UNCHANGED << now, store, nup >>
    /\ UNCHANGED << staged, dirExists, used, remote, keep, faults, pc, cycleVars,
                    result, reply, gitVars >>

\* The clock enters the next second.
Tick ==
    /\ now < Len(Stamps)
    /\ now' = now + 1
    /\ UNCHANGED << filename, handled, new_filename, store, nup >>
    /\ UNCHANGED << staged, dirExists, used, remote, keep, faults, pc, cycleVars,
                    result, reply, gitVars >>

Contents == {"image", "bad_image", "bad_saved"}

\* An upload request is at hand, with any filename a client can send.
InitNames ==
    /\ filename \in Filenames
    /\ handled = FALSE
    /\ now = 1
    /\ new_filename = << >>
    /\ store = {}
    /\ nup = 0
    /\ staged = [n \in Names |-> "absent"]
    /\ dirExists = FALSE
    /\ used = {}
    /\ remote = {}
    /\ keep = FALSE
    /\ faults = 0
    /\ pc = [c \in Procs |-> IF c = "worker" THEN "list" ELSE "idle"]
    /\ image_files = [c \in Procs |-> {}]
    /\ i = [c \in Procs |-> 0]
    /\ response = [c \in Procs |-> 0]
    /\ attempt = [c \in Procs |-> 0]
    /\ success_count = [c \in Procs |-> 0]
    /\ failed_files = [c \in Procs |-> {}]
    /\ rejected = [c \in Procs |-> {}]
    /\ mismatch = [c \in Procs |-> {}]
    /\ branch = [c \in Procs |-> ""]
    /\ log = [c \in Procs |-> << >>]
    /\ result = [c \in Procs |-> "none"]
    /\ reply = 0
    /\ GitIdle

NextNames ==
    \/ \E random_code \in Codes, content \in Contents : UploadImage(random_code, content)
    \/ \E fn \in Filenames : NextRequest(fn)
    \/ Tick

NameSpec == InitNames /\ [][NextNames]_vars

\* ------------------------------------------- src/app/index.py, the clone
\* upload_image of src/app/index.py for one file, with the name n that
\* rename_and_save_image allocates (lines 35-66): "bad_ext" and "bad_image"
\* are refused, "image" is verified and saved.
GitUpload(n, kind) ==
    /\ n \notin given
    /\ given' = (IF kind = "image" THEN given \cup {n} ELSE given)
    /\ uploads_dir' = (IF kind = "bad_ext" THEN uploads_dir ELSE TRUE)
    /\ uploads' = (IF kind = "image" THEN uploads \cup {n} ELSE uploads)
    /\ UNCHANGED << repo_dir, worktree, head, origin, gpc, listed, gresult, gfaults >>
    /\ UNCHANGED appVars

\* trigger_push, line 218: push_images_to_github is called.
GitTrigger ==
    /\ gpc = "idle"
    /\ gpc' = "list"
    /\ gresult' = "none"
    /\ UNCHANGED << uploads, uploads_dir, given, repo_dir, worktree, head, origin,
                    listed, gfaults >>
    /\ UNCHANGED appVars

\* Lines 72-81.
GitList ==
    /\ gpc = "list"
    /\ IF ~uploads_dir THEN gpc' = "done" /\ gresult' = "no_dir" /\ listed' = {}
       ELSE IF uploads = {} THEN gpc' = "done" /\ gresult' = "no_images" /\ listed' = {}
       ELSE gpc' = "clone" /\ gresult' = gresult /\ listed' = uploads
    /\ UNCHANGED << uploads, uploads_dir, given, repo_dir, worktree, head, origin,
                    gfaults >>
    /\ UNCHANGED appVars

\* What a git operation that talks to GitHub can meet: it works ("ok"), it
\* raises ("raise"), or, for a push, the remote refuses the update and
\* origin.push() hands back the refusal in its return value, which nobody
\* looks at ("refused").
GitAnswers(op) ==
    IF gfaults < MaxFaults
    THEN (IF op = "push" THEN {"ok", "raise", "refused"} ELSE {"ok", "raise"})
    ELSE {"ok"}

\* Lines 84-88: clone unless REPO_DIR is there already, then open it.
GitClone ==
    /\ gpc = "clone"
    /\ IF repo_dir
       THEN /\ gpc' = "copy"
            /\ UNCHANGED << repo_dir, worktree, head, gresult, gfaults >>
       ELSE \E a \in GitAnswers("clone") :
              /\ gfaults' = (IF a = "ok" THEN gfaults ELSE gfaults + 1)
              /\ IF a = "ok"
                 THEN /\ repo_dir' = TRUE
                      /\ worktree' = origin
                      /\ head' = origin
                      /\ gpc' = "copy"
                      /\ UNCHANGED gresult
                 ELSE /\ gpc' = "done"
                      /\ gresult' = "error"
                      /\ UNCHANGED << repo_dir, worktree, head >>
    /\ UNCHANGED << uploads, uploads_dir, given, origin, listed >>
    /\ UNCHANGED appVars

\* Lines 91-99: shutil.copy2 of every listed file into REPO_DIR/images.
GitCopy ==
    /\ gpc = "copy"
    /\ worktree' = worktree \cup listed
    /\ gpc' = "commit"
    /\ UNCHANGED << uploads, uploads_dir, given, repo_dir, head, origin, listed,
                    gresult, gfaults >>
    /\ UNCHANGED appVars

\* repo.is_dirty() after repo.git.add('images/') (lines 102-103): the index
\* differs from the last commit.
IsDirty == worktree # head

\* Lines 102-105 and 116-118: commit when there is something to commit,
\* "No changes to commit." otherwise.
GitCommit ==
    /\ gpc = "commit"
    /\ IF IsDirty
       THEN head' = worktree /\ gpc' = "push" /\ UNCHANGED gresult
       ELSE gpc' = "done" /\ gresult' = "no_changes" /\ UNCHANGED head
    /\ UNCHANGED << uploads, uploads_dir, given, repo_dir, worktree, origin, listed,
                    gfaults >>
    /\ UNCHANGED appVars

\* Lines 108-115 and 120-122: origin.push(), then the purge.  A push that
\* raises leaves through the except branch; a refused push returns, and the
\* purge and the success message follow all the same.
GitPush ==
    /\ gpc = "push"
    /\ \E a \in GitAnswers("push") :
         /\ gfaults' = (IF a = "ok" THEN gfaults ELSE gfaults + 1)
         /\ origin' = (IF a = "ok" THEN origin \cup head ELSE origin)
         /\ IF a = "raise"
            THEN gresult' = "error" /\ UNCHANGED << uploads, uploads_dir >>
            ELSE gresult' = "pushed" /\ uploads' = {} /\ uploads_dir' = FALSE
    /\ gpc' = "done"
    /\ UNCHANGED << given, repo_dir, worktree, head, listed >>
    /\ UNCHANGED appVars

\* trigger_push, lines 219-228: the answer goes out.
GitRespond ==
    /\ gpc = "done"
    /\ gpc' = "idle"
    /\ listed' = {}
    /\ UNCHANGED << uploads, uploads_dir, given, repo_dir, worktree, head, origin,
                    gresult, gfaults >>
    /\ UNCHANGED appVars

GitKinds == {"bad_ext", "bad_image", "image"}

GitNext ==
    \/ \E n \in Names, kind \in GitKinds : GitUpload(n, kind)
    \/ GitTrigger
    \/ GitList
    \/ GitClone
    \/ GitCopy
    \/ GitCommit
    \/ GitPush
    \/ GitRespond

GitSpec == Init /\ [][GitNext]_vars

\* ================================================================ claims
\* The positions between the listing of line 142 and the end of the purge
\* decision of lines 239-246.
CyclePcs == {"branch", "tree", "keep", "verify", "probe", "write", "confirm", "decide"}

InCycle(c) == pc[c] \in CyclePcs

\* This step is thread c taking the purge decision.
Decides(c) == pc[c] = "decide" /\ pc'[c] # "decide"

\* This step takes away the staging directory or a file in it.
Removes == (dirExists /\ ~dirExists') \/ \E n \in Names : staged[n] # "absent" /\ staged'[n] = "absent"

\* C1: a cycle that reaches its purge decision purges the staging store if
\* and only if every file it listed was written and verified (failed_files is
\* empty): with a failed file the decision removes nothing, with none the
\* store is empty afterwards and every listed file is on the remote; and no
\* other step of any cycle removes anything.
C1_PurgeIffAllConfirmed ==
    [][ /\ \A c \in Procs : Decides(c) =>
             /\ failed_files[c] # {} =>
                    staged' = staged /\ dirExists' = dirExists /\ result'[c] = "partial"
             /\ failed_files[c] = {} =>
                    /\ Listing' = {} /\ ~dirExists'
                    /\ image_files[c] \subseteq remote
                    /\ success_count[c] = Cardinality(image_files[c])
        /\ Removes => \E c \in Procs : Decides(c) /\ failed_files[c] = {}
      ]_vars

\* C1 witness: a cycle over a non-empty listing has returned success and the
\* staging store is empty.
C1_Witness ==
    \E c \in Procs : pc[c] = "done" /\ result[c] = "pushed" /\ image_files[c] # {}
                     /\ Listing = {} /\ ~dirExists

\* C2: a staged file is deleted only by the purge of a cycle that listed it
\* and verified it on the remote.
C2_DeletesOnlyVerified ==
    [][ \A n \in Names : (staged[n] # "absent" /\ staged'[n] = "absent") =>
            \E c \in Procs : Decides(c) /\ n \in image_files[c] \ failed_files[c]
      ]_vars

\* C3: the worker's cycle and the manual trigger's cycle are never both
\* between their listing and the end of their purge decision.
C3_OneCycleAtATime == ~(InCycle("worker") /\ InCycle("trigger"))

\* C4: every accepted upload (the handler wrote the verified file and
\* returned its name, which is when staged[n] becomes "valid") is eventually
\* present on the remote at images/<n>, the threads being scheduled fairly
\* and the remote answering every request properly.
C4_AcceptedReachesRemote ==
    \A n \in Names : (staged[n] = "valid") ~> (n \in remote)

\* C5 as stated: after the purge decision of a cycle in which an asset had
\* every write answered 500, the staging store is non-empty and, of the
\* assets of the batch, holds exactly the failed ones.
C5_ExactlyFailedRemain ==
    [][ \A c \in Procs : (Decides(c) /\ rejected[c] # {}) =>
            (Listing' # {} /\ Listing' \cap image_files[c] = failed_files[c])
      ]_vars

\* C5 amended: the purge decision of a cycle in which an asset had every
\* write answered 500 reports failure and removes nothing: every file staged
\* at the decision, confirmed or failed, is staged unchanged after it.
C5_NothingRemovedOnFailure ==
    [][ \A c \in Procs : (Decides(c) /\ rejected[c] # {}) =>
            /\ staged' = staged /\ dirExists' = dirExists
            /\ result'[c] = "partial"
            /\ rejected[c] \subseteq failed_files'[c]
      ]_vars

\* C5 witness: a cycle over two assets has ended with one confirmed and one
\* rejected by three 500 answers, and both are still staged.
C5_Witness ==
    \E c \in Procs :
        /\ pc[c] = "done" /\ result[c] = "partial"
        /\ rejected[c] # {} /\ success_count[c] > 0
        /\ image_files[c] \subseteq Listing /\ failed_files[c] # Listing

\* C6: a cycle started on an empty or missing staging store goes straight to
\* its result without a remote call or a purge, and neither caller reports
\* an error for it; for the trigger endpoint that is a status other than 400.
C6_EmptyBatchIsNoError ==
    [][ /\ \A c \in Procs : (pc[c] = "list" /\ Listing = {} /\ pc'[c] # "list") =>
             /\ pc'[c] = "done" /\ result'[c] \in {"no_dir", "no_images"}
             /\ success_count'[c] = 0 /\ failed_files'[c] = {}
             /\ UNCHANGED << staged, dirExists, remote, keep, faults >>
        /\ (pc["trigger"] = "done" /\ result["trigger"] \in {"no_dir", "no_images"}
              /\ pc'["trigger"] = "idle") => reply' # 400
      ]_vars

\* This step is thread c getting an answer to a write of its retry loop.
Writes(c) == pc[c] = "write" /\ (pc'[c] # "write" \/ log'[c] # log[c])

\* C7: for an asset the probe found present, when the first update is
\* rejected the asset is not failed and a second attempt follows; when the
\* remote accepts that attempt the loop ends within its three attempts, and
\* when the re-issued probe is answered the asset is counted as succeeded.
C7_RetryConverges ==
    [][ \A c \in Procs :
          LET f == Nth(image_files[c], i[c]) IN
          /\ ( /\ Writes(c) /\ response[c] = 200 /\ log[c] = << >>
               /\ faults' = faults + 1 /\ pc'[c] \notin {"stalled", "done", "crashed"} ) =>
                 /\ pc'[c] = "write" /\ log'[c] = << 500 >>
                 /\ f \notin failed_files'[c]
          /\ ( Writes(c) /\ response[c] = 200 /\ log[c] = << 500 >> /\ faults' = faults ) =>
                 /\ pc'[c] = "confirm" /\ log'[c] = << 500, 200 >>
                 /\ Len(log'[c]) <= MaxAttempts
          /\ ( /\ pc[c] = "confirm" /\ pc'[c] # "confirm" /\ log[c] = << 500, 200 >>
               /\ faults' = faults ) =>
                 /\ success_count'[c] = success_count[c] + 1
                 /\ failed_files'[c] = failed_files[c]
      ]_vars

\* C7 witness: an update was rejected once and accepted on the second attempt.
C7_Witness ==
    \E c \in Procs : pc[c] = "confirm" /\ response[c] = 200 /\ log[c] = << 500, 200 >>

Outcomes == {"pushed", "partial", "error", "no_dir", "no_images", "ensure_failed"}

\* C8: whatever a cycle of the worker ended with, a success, a failure or an
\* exception raised inside it, the worker calls the engine again; so the
\* engine is called infinitely often, unless a call to the remote never
\* returns and the cycle has no outcome at all.
C8_WorkerGoesOn ==
    /\ (result["worker"] \in Outcomes) ~> (pc["worker"] = "list")
    /\ ([]<>(pc["worker"] = "list") \/ <>[](pc["worker"] = "stalled"))

\* C8 witness: an exception was raised inside a cycle of the worker.
C8_Witness == result["worker"] = "error"

\* C9: no thread is ever left inside a remote call that does not return.
C9_RemoteCallsReturn == \A c \in Procs : pc[c] # "stalled"

\* C10: a failure in the probe, write or verify step of an asset never ends
\* the cycle while assets of the batch remain: the loop goes on to them.
C10_ErrorsIsolatedPerAsset ==
    [][ \A c \in Procs :
          (pc[c] \in {"probe", "write", "confirm"} /\ i[c] < Cardinality(image_files[c]))
              => pc'[c] # "done"
      ]_vars

\* This step is thread c leaving ensure_images_directory without a prefix:
\* the tree was not listed and no placeholder was created, or the call raised.
EnsureFails(c) ==
    \/ pc[c] = "tree" /\ pc'[c] \notin {"tree", "keep", "verify", "stalled"}
    \/ pc[c] = "keep" /\ pc'[c] \notin {"keep", "stalled"} /\ keep' = keep

\* C11: when ensure_images_directory does not succeed (the listing is not
\* answered with 200 and the placeholder is not created, or a request raises)
\* the cycle ends there with "Failed to ensure images/ directory exists.": no
\* asset was reached (i = 0, nothing counted, nothing failed), the remote and
\* the staging directory are as they were, so every file of the listing is
\* still there for the next listing; and a cycle that ended this way never
\* issued a probe or a write.
C11_EnsureFailureAborts ==
    [][ \A c \in Procs :
          /\ EnsureFails(c) =>
                /\ pc'[c] = "done" /\ result'[c] = "ensure_failed"
                /\ i'[c] = 0 /\ success_count'[c] = 0 /\ failed_files'[c] = {}
                /\ response'[c] = 0 /\ log'[c] = << >>
                /\ remote' = remote /\ keep' = keep
                /\ staged' = staged /\ dirExists' = dirExists
                /\ image_files'[c] = image_files[c]
          /\ (pc[c] \in {"tree", "keep"} /\ pc'[c] \in {"verify", "probe", "write"}) =>
                (keep' \/ remote # {}) ]_vars

\* C11 witness: a cycle ended on the failed bootstrap with its whole listing
\* still staged and nothing of it on the remote.
C11_Witness ==
    \E c \in Procs :
        /\ pc[c] = "done" /\ result[c] = "ensure_failed"
        /\ image_files[c] # {} /\ image_files[c] \subseteq Listing
        /\ image_files[c] \cap remote = {}

\* C12: a file appears in the staging directory only with an upload that was
\* answered 'success': whenever a step puts a file under a name, that file is
\* the verified image of an accepted upload; a rejected upload (extension,
\* decode before the save, verify after the save) adds no file.
C12_StagedOnlyIfAccepted ==
    [][ \A n \in Names :
          (staged'[n] # staged[n] /\ staged'[n] # "absent") => staged'[n] = "valid" ]_vars

\* A name of the form <timestamp>_<4 digits>.<ext>: five pieces, one dot,
\* the extension one of the allow-list as it is spelled there.
WellFormed(nm) ==
    /\ Len(nm) = 5
    /\ \E t \in 1 .. Len(Stamps) : nm[1] = strftime(t)
    /\ nm[2] = "_" /\ nm[3] \in Codes /\ nm[4] = "."
    /\ nm[5] \in ALLOWED_EXTENSIONS

\* C13: whenever the upload path returns a name for the filename of the
\* request, allowed_file accepted that filename and the name is
\* <timestamp>_<4 digits>.<ext> with the one extension being the filename's,
\* lower-cased and in the allow-list; a filename allowed_file refuses gets no
\* name; and every file written carries such a name.
C13_NameForm ==
    /\ new_filename # << >> =>
          /\ allowed_file(filename)
          /\ WellFormed(new_filename)
          /\ << new_filename[5] >> = Lower(AfterLastDot(filename))
    /\ (handled /\ ~allowed_file(filename)) => new_filename = << >>
    /\ \A nm \in store : WellFormed(nm)

\* C13 witness: a.PNG was accepted and named with the extension .png.
C13_Witness ==
    /\ filename = << "a", ".", "PNG" >>
    /\ new_filename # << >>
    /\ new_filename[5] = "png"
    /\ new_filename \in store

\* C14: the name an accepted upload receives is not the name of a file
\* staged already, whatever second it arrives in: no accepted upload is
\* saved over an earlier file.
C14_NamesUnique ==
    [][ (~handled /\ handled' /\ new_filename' # << >>) => new_filename' \notin store ]_vars

\* The asset thread c is working on.
Asset(c) == Nth(image_files[c], i[c])

\* C15: a write issued for an asset that is on the remote already is an
\* update (the PUT chosen after a probe answered 200), never a create, and it
\* leaves the set of remote paths as it was.
C15_UpdateNeverCreate ==
    [][ \A c \in Procs :
          (Writes(c) /\ Asset(c) \in remote) => (response[c] = 200 /\ remote' = remote) ]_vars

\* C16: a write that is rejected with 400 because the object appeared on the
\* remote after the probe had answered 404 is followed by a new existence
\* probe, not by another write made on the old probe's answer.
C16_RecheckAfterConflict ==
    [][ \A c \in Procs :
          (pc[c] = "write" /\ response[c] = 404 /\ log'[c] = Append(log[c], 400)) =>
              pc'[c] = "probe" ]_vars

\* C17: an asset gets at most 3 write attempts in a cycle (at the write
\* position fewer than 3 have been made, one status logged for each); an
\* attempt answered 200/201 is the last one, the cycle moves on to the verify
\* and from there to the next asset; a refused attempt is followed by another
\* only while the budget lasts; the refused third attempt records the asset
\* as failed and the loop goes on with the next asset, or to the purge
\* decision after the last one.
C17_ThreeAttempts ==
    [][ \A c \in Procs :
          /\ pc[c] = "write" => (attempt[c] < MaxAttempts /\ Len(log[c]) = attempt[c])
          /\ (Writes(c) /\ pc'[c] = "confirm") =>
                /\ log'[c][Len(log'[c])] \in {200, 201}
                /\ \A k \in 1 .. Len(log[c]) : log[c][k] \notin {200, 201}
          /\ (pc[c] = "confirm" /\ pc'[c] # "confirm") => pc'[c] \notin {"probe", "write"}
          /\ (Writes(c) /\ pc'[c] = "write") =>
                /\ attempt'[c] = attempt[c] + 1 /\ attempt'[c] < MaxAttempts
                /\ log'[c][Len(log'[c])] \notin {200, 201}
          /\ (Writes(c) /\ pc'[c] \in {"verify", "decide"}) =>
                /\ attempt[c] = MaxAttempts - 1
                /\ Asset(c) \in failed_files'[c]
                /\ success_count'[c] = success_count[c]
                /\ i'[c] = i[c] + 1
                /\ pc'[c] = "verify" <=> i[c] < Cardinality(image_files[c]) ]_vars

\* C17 witness: the first asset used up its three attempts and was recorded
\* as failed; the second asset of the batch has been written since.
C17_Witness ==
    \E c \in Procs :
        /\ rejected[c] # {} /\ i[c] = 2 /\ pc[c] = "confirm"
        /\ rejected[c] \subseteq failed_files[c]

\* C18: success_count grows only in the verify step, by one, and only when
\* the probe re-issued after the accepted write is answered 200 for an object
\* that is on the remote; a verify answered otherwise records the asset as
\* failed and counts nothing; and a cycle with such an asset purges nothing
\* and reports a partial push.
C18_CountedOnlyIfVerified ==
    [][ \A c \in Procs :
          /\ success_count'[c] > success_count[c] =>
                /\ pc[c] = "confirm"
                /\ log[c] # << >> /\ log[c][Len(log[c])] \in {200, 201}
                /\ Asset(c) \in remote /\ faults' = faults
                /\ success_count'[c] = success_count[c] + 1
                /\ Asset(c) \notin failed_files'[c]
          /\ (pc[c] = "confirm" /\ pc'[c] \in {"verify", "decide"} /\ faults' # faults) =>
                /\ Asset(c) \in failed_files'[c]
                /\ Asset(c) \in mismatch'[c]
                /\ success_count'[c] = success_count[c]
          /\ (Decides(c) /\ mismatch[c] # {}) =>
                /\ success_count[c] < Cardinality(image_files[c])
                /\ staged' = staged /\ dirExists' = dirExists
                /\ result'[c] = "partial" ]_vars

\* C18 witness: the only asset of a batch was written, the verify did not
\* find it, and the cycle ended without a purge although it is on the remote.
C18_Witness ==
    \E c \in Procs :
        /\ pc[c] = "done" /\ result[c] = "partial"
        /\ mismatch[c] # {} /\ mismatch[c] = image_files[c]
        /\ mismatch[c] \subseteq remote /\ image_files[c] \subseteq Listing
        /\ success_count[c] = 0

\* C19: the existence probe ends in one of three ways.  Answered 200 (the
\* object is there) the write that follows is an update: it never answers 201
\* and adds no path.  Answered with another status (404 when the object is
\* missing, 500) the write is a create: it never answers 200.  Without an
\* HTTP answer (exception, no answer at all) the engine does not reach the
\* write position: the remote is as it was and no status is kept, so a write
\* is only ever chosen from a status that was received.
C19_ProbeOutcomes ==
    [][ \A c \in Procs :
          /\ (pc[c] = "probe" /\ pc'[c] = "write") =>
                \/ faults' = faults /\ response'[c] = (IF Asset(c) \in remote THEN 200 ELSE 404)
                \/ faults' = faults + 1 /\ response'[c] = 500
          /\ (pc[c] = "probe" /\ pc'[c] \notin {"probe", "write"}) =>
                /\ pc'[c] \in {"done", "stalled"}
                /\ response'[c] = 0 /\ remote' = remote
          /\ pc[c] = "write" => response[c] \in {200, 404, 500}
          /\ (Writes(c) /\ pc'[c] \in {"write", "confirm"}) =>
                LET st == log'[c][Len(log'[c])] IN
                /\ response[c] = 200 => (st \in {200, 400, 500} /\ remote' = remote)
                /\ response[c] # 200 => st \in {201, 400, 500}
                /\ remote' # remote => (st = 201 /\ remote' = remote \cup {Asset(c)}) ]_vars

\* C19 witness: the probe answered 404 and the create that followed was
\* accepted with 201.
C19_Witness ==
    \E c \in Procs :
        /\ pc[c] = "confirm" /\ response[c] = 404 /\ log[c] = << 201 >>
        /\ Asset(c) \in remote

\* This step is thread c going through a request of ensure_images_directory.
Ensures(c) == pc[c] \in {"tree", "keep"} /\ pc'[c] # pc[c]

\* C20: ensure_images_directory reports success (the cycle enters the loop)
\* when the listing of images/ is answered 200 and when its POST has just
\* created the placeholder; a listing answered 200 is followed by no write;
\* the placeholder is created only while it is missing and never goes away,
\* so it is created at most once; no call changes the images on the remote,
\* and a call made once the placeholder is there changes nothing at all.
C20_EnsureIdempotent ==
    [][ /\ keep => keep'
        /\ keep' # keep => \E c \in Procs : Ensures(c)
        /\ \A c \in Procs :
             /\ (pc[c] = "tree" /\ pc'[c] # "tree" /\ faults' = faults
                    /\ (keep \/ remote # {})) =>
                   (pc'[c] = "verify" /\ i'[c] = 1 /\ keep' = keep /\ remote' = remote)
             /\ (Ensures(c) /\ keep' # keep) =>
                   (pc[c] = "keep" /\ ~keep /\ keep' /\ pc'[c] = "verify" /\ i'[c] = 1)
             /\ Ensures(c) => remote' = remote
             /\ (Ensures(c) /\ keep) => keep' = keep
             /\ (Ensures(c) /\ pc'[c] = "verify") =>
                   (keep' /\ (keep' = keep \/ pc[c] = "keep")) ]_vars

\* C20 witness: the placeholder is there, an image is on the remote, and a
\* later call of ensure_images_directory has let its cycle into the loop.
C20_Witness ==
    \E c \in Procs :
        /\ keep /\ remote # {}
        /\ pc[c] = "verify" /\ i[c] = 1
        /\ image_files[c] \cap remote = {}

\* C21: the call of get_default_branch that comes back never ends the cycle:
\* answered with a non-200 status or cut short by an exception it hands back
\* 'main', answered 200 the project's default branch, and in both cases the
\* cycle goes on to ensure_images_directory and keeps that branch for every
\* later request of the cycle.
C21_BranchFallsBack ==
    [][ \A c \in Procs :
          /\ (pc[c] = "branch" /\ pc'[c] \notin {"branch", "stalled"}) =>
                /\ pc'[c] = "tree" /\ result'[c] = result[c]
                /\ image_files'[c] = image_files[c]
                /\ faults' # faults => branch'[c] = "main"
                /\ faults' = faults => branch'[c] = default_branch
          /\ pc[c] \in CyclePcs \ {"branch"} => branch[c] \in {"main", default_branch}
          /\ (pc[c] \in CyclePcs \ {"branch"} /\ pc'[c] \in CyclePcs) =>
                branch'[c] = branch[c] ]_vars

\* C21 witness: a cycle runs on 'main' after its project request failed, and
\* has reached the write of an asset.
C21_Witness ==
    \E c \in Procs : pc[c] = "write" /\ branch[c] = "main" /\ faults = 1

\* This step is the call of push_images_to_github coming to its end.
GitEnds == gpc \in {"clone", "commit", "push"} /\ gpc' = "done"

\* C22: in src/app/index.py the files of a call whose push failed are pushed
\* by a later call that meets a working remote: every call in which no git
\* operation fails ends with each file it listed on the branch, the upload
\* folder cleared and the success message.
C22_LaterCyclePushes ==
    [][ (GitEnds /\ gfaults' = gfaults) =>
              (listed \subseteq origin' /\ uploads' = {} /\ gresult' = "pushed") ]_vars

\* This step is thread c coming out of push_images_to_gitlab with a result.
Returns(c) == pc[c] \in CyclePcs \cup {"list"} /\ pc'[c] = "done"

\* C23: the result of a cycle tells what happened to the staging directory.
\* The cycle returns success exactly in the step in which it removes the
\* directory, trigger_push answers 200 exactly for that result, and when a
\* cycle returns anything else every file it listed at its start is still
\* staged.
C23_ResultMatchesStore ==
    [][ /\ \A c \in Procs :
             /\ Returns(c) =>
                   /\ result'[c] = "pushed" <=> (dirExists /\ ~dirExists' /\ Listing' = {})
                   /\ result'[c] # "pushed" => image_files[c] \subseteq Listing'
        /\ Removes => \E c \in Procs : Returns(c) /\ result'[c] = "pushed"
        /\ (pc["trigger"] = "done" /\ pc'["trigger"] = "idle") =>
              (reply' = 200 <=> result["trigger"] = "pushed") ]_vars

\* C24: a staged file that does not pass Image.open/verify at the start of
\* its turn is appended to failed_files in that very step, without a request
\* to the remote, and the loop moves on; every asset the loop is done with
\* is either counted in success_count or in failed_files, never both and
\* never twice, so that at the purge decision and in the result that follows
\* success_count plus the number of failed files is the number of files listed.
C24_LocalFailureCountedOnce ==
    [][ \A c \in Procs :
          /\ (pc[c] = "verify" /\ pc'[c] # "verify" /\ staged[Asset(c)] # "valid") =>
                /\ Asset(c) \in failed_files'[c] /\ Asset(c) \notin failed_files[c]
                /\ success_count'[c] = success_count[c]
                /\ pc'[c] \in {"verify", "decide"} /\ i'[c] = i[c] + 1
                /\ faults' = faults /\ remote' = remote
                /\ response'[c] = 0 /\ log'[c] = << >>
          /\ pc[c] \in {"verify", "probe", "write", "confirm"} =>
                /\ success_count[c] + Cardinality(failed_files[c]) = i[c] - 1
                /\ Asset(c) \notin failed_files[c]
          /\ (pc[c] = "decide" \/ (pc[c] = "done" /\ result[c] \in {"pushed", "partial"})) =>
                success_count[c] + Cardinality(failed_files[c]) = Cardinality(image_files[c]) ]_vars

\* C24 witness: of two listed files the corrupt one is recorded as failed and
\* is not on the remote, the other one was counted, and the cycle has ended.
C24_Witness ==
    \E c \in Procs :
        /\ pc[c] = "done" /\ result[c] = "partial"
        /\ Cardinality(image_files[c]) = 2 /\ success_count[c] = 1
        /\ \E f \in failed_files[c] : staged[f] = "corrupt" /\ f \notin remote

============================================================================
